---- MODULE Spec2Model ----
(***************************************************************************)
(* Grounding-resistance engine of the antenna grounding simulator          *)
(* (groundMath.js), the GroundingSystem parameter holder, and the change   *)
(* handlers of the simulator (main.js) that write it and recompute.        *)
(* Three specifications: SpecCfg (calculate() on a configuration), SpecFn  *)
(* (the exported functions called directly) and Spec (the simulator).      *)
(*                                                                         *)
(* JavaScript numbers are modelled as exact rationals [n, d] in lowest     *)
(* terms with d >= 0; the three non-finite IEEE values are the records     *)
(* with d = 0:  +Infinity = 1/0,  -Infinity = -1/0,  NaN = 0/0.            *)
(* Rounding of binary floating point and the sign of zero are not          *)
(* modelled.  Math.PI is the rational 355/113, Math.log is computed to two *)
(* decimals (exactly 0 at 1, negative below 1, positive above 1), and the  *)
(* product with the logarithm is rounded away from zero to a multiple of   *)
(* 1/1000, the one place where the model rounds a result.                  *)
(***************************************************************************)
EXTENDS Integers, Sequences, FiniteSets, TLC

(***************************************************************************)
(* Number arithmetic                                                       *)
(***************************************************************************)
Abs(x) == IF x < 0 THEN -x ELSE x

Sign(x) == IF x < 0 THEN -1 ELSE IF x > 0 THEN 1 ELSE 0

RECURSIVE GCD(_, _)
GCD(a, b) == IF b = 0 THEN a ELSE GCD(b, a % b)

\* The number n/d in lowest terms; n/0 is +Infinity, -Infinity or NaN.
Rat(n, d) ==
    IF d = 0 THEN [n |-> Sign(n), d |-> 0]
    ELSE LET g == GCD(Abs(n), Abs(d))
             s == Sign(d)
         IN  [n |-> s * (n \div g), d |-> s * (d \div g)]

Num(k) == [n |-> k, d |-> 1]

Infinity == [n |-> 1, d |-> 0]

NegInfinity == [n |-> -1, d |-> 0]

NaN == [n |-> 0, d |-> 0]

IsNaN(a) == a.d = 0 /\ a.n = 0

IsFinite(a) == a.d # 0

\* a * b
Mul(a, b) ==
    IF a.d = 0 \/ b.d = 0 \/ a.n = 0 \/ b.n = 0
    THEN Rat(a.n * b.n, a.d * b.d)
    ELSE LET g1 == GCD(Abs(a.n), b.d)
             g2 == GCD(Abs(b.n), a.d)
         IN  Rat((a.n \div g1) * (b.n \div g2), (a.d \div g2) * (b.d \div g1))

\* a / b
Div(a, b) ==
    IF b.d = 0 /\ b.n # 0
    THEN (IF a.d = 0 THEN NaN ELSE Num(0))
    ELSE IF b.n = 0
    THEN (IF b.d = 0 THEN NaN ELSE Rat(a.n, 0))
    ELSE Mul(a, [n |-> Sign(b.n) * b.d, d |-> Abs(b.n)])

\* a + b
Add(a, b) ==
    IF a.d = 0 /\ b.d = 0
    THEN (IF a.n = b.n THEN a ELSE NaN)
    ELSE IF a.d = 0 THEN a
    ELSE IF b.d = 0 THEN b
    ELSE LET g == GCD(a.d, b.d)
         IN  Rat(a.n * (b.d \div g) + b.n * (a.d \div g), (a.d \div g) * b.d)

Neg(a) == [n |-> -a.n, d |-> a.d]

\* a - b
Sub(a, b) == Add(a, Neg(b))

\* a <= b (false when either operand is NaN)
Leq(a, b) ==
    /\ ~IsNaN(a)
    /\ ~IsNaN(b)
    /\ IF a.d = 0 /\ b.d = 0 THEN a.n <= b.n
       ELSE IF a.d = 0 THEN a.n < 0
       ELSE IF b.d = 0 THEN b.n > 0
       ELSE LET g == GCD(a.d, b.d)
            IN  a.n * (b.d \div g) <= b.n * (a.d \div g)

\* a >= b
Geq(a, b) == Leq(b, a)

\* a < b
Lt(a, b) == ~IsNaN(a) /\ ~IsNaN(b) /\ ~Leq(b, a)

\* a > b
Gt(a, b) == Lt(b, a)

\* a === b
Eq(a, b) == ~IsNaN(a) /\ ~IsNaN(b) /\ a = b

\* Math.min(a, b)
MathMin(a, b) == IF IsNaN(a) \/ IsNaN(b) THEN NaN ELSE IF Leq(a, b) THEN a ELSE b

\* Math.max(a, b)
MathMax(a, b) == IF IsNaN(a) \/ IsNaN(b) THEN NaN ELSE IF Leq(a, b) THEN b ELSE a

\* Math.PI
MathPI == Rat(355, 113)

(***************************************************************************)
(* Math.log, to two decimals: x = 2^k * m with m in [1, 2),                *)
(* ln x = k ln 2 + 2 atanh((m - 1)/(m + 1)), in fixed point of 10^-5.      *)
(***************************************************************************)
LnScale == 100000

Ln2Scaled == 69315

RECURSIVE Log2Floor(_, _)
Log2Floor(p, q) == IF p < 2 * q THEN 0 ELSE 1 + Log2Floor(p, 2 * q)

RECURSIVE Pow2(_)
Pow2(k) == IF k = 0 THEN 1 ELSE 2 * Pow2(k - 1)

\* ln(p/q) * LnScale for p >= q > 0
LnScaled(p, q) ==
    LET k  == Log2Floor(p, q)
        qq == q * Pow2(k)
        z  == ((p - qq) * LnScale) \div (p + qq)
        z2 == (z * z) \div LnScale
        z3 == (z * z2) \div LnScale
        z5 == (z3 * z2) \div LnScale
        z7 == (z5 * z2) \div LnScale
        z9 == (z7 * z2) \div LnScale
    IN  k * Ln2Scaled + 2 * (z + z3 \div 3 + z5 \div 5 + z7 \div 7 + z9 \div 9)

\* ln(p/q) in hundredths, rounded to nearest and at least 1, for p > q > 0
LnHundredths(p, q) ==
    LET h == (LnScaled(p, q) + 500) \div 1000
    IN  IF h < 1 THEN 1 ELSE h

\* Math.log(x)
MathLog(x) ==
    IF IsNaN(x) \/ x.n < 0 THEN NaN
    ELSE IF x.d = 0 THEN Infinity
    ELSE IF x.n = 0 THEN NegInfinity
    ELSE IF x.n = x.d THEN Num(0)
    ELSE IF x.n > x.d
         THEN Rat(LnHundredths(x.n, x.d), 100)
         ELSE Rat(-LnHundredths(x.d, x.n), 100)

\* The floating-point product a * b of an irrational factor: rounded away
\* from zero to the next multiple of 1/1000, so that its sign is kept.
MulRounded(a, b) ==
    LET x == Mul(a, b)
    IN  IF x.d = 0 THEN x
        ELSE LET m == Abs(x.n)
                 q == m \div x.d
                 f == ((m % x.d) * 1000 + x.d - 1) \div x.d
             IN  Rat(Sign(x.n) * (q * 1000 + f), 1000)

(***************************************************************************)
(* State                                                                   *)
(*   gs          the GroundingSystem instance's fields                     *)
(*   metrics     <<>> before the first calculate(), then <<its last        *)
(*               result>>                                                  *)
(*   locals      <<>> or <<the locals of the last calculate() at its       *)
(*               return>>                                                  *)
(*   args        <<>> or <<the arguments of the last direct call of an     *)
(*               exported function>>                                       *)
(*   returned    <<>> or <<the function called and the value it returned>> *)
(*   simulator   the GroundingSimulator's own fields                       *)
(*   antenna, terrain, climate, currentFlow                                *)
(*               the fields of the simulator's other systems               *)
(*   display     <<>> or <<the metrics last passed to                      *)
(*               updateMetricsDisplay>>                                    *)
(*   ui          the UIManager's params                                    *)
(* The simulator's variables are <<>> where no simulator is constructed.   *)
(* Scene-graph objects (meshes, obstacles, particles, flow lines, lights,  *)
(* the camera, the grid) are not part of the state.                        *)
(***************************************************************************)
VARIABLES gs, metrics, locals, args, returned,
          simulator, antenna, terrain, climate, currentFlow, display, ui

vars == <<gs, metrics, locals, args, returned,
          simulator, antenna, terrain, climate, currentFlow, display, ui>>

\* the variables that hold a direct call of an exported function
callVars == <<args, returned>>

\* the variables of the simulator around the GroundingSystem
simVars == <<simulator, antenna, terrain, climate, currentFlow, display, ui>>

(***************************************************************************)
(* utils.js                                                                *)
(***************************************************************************)
clamp(value, min, max) == MathMax(min, MathMin(max, value))

(***************************************************************************)
(* groundMath.js                                                           *)
(***************************************************************************)
SOIL_RESISTIVITY ==
    [wet |-> 10, clay |-> 40, loam |-> 100, sandy |-> 200,
     gravel |-> 400, rocky |-> 1000, dry |-> 1500]

\* SOIL_RESISTIVITY[soilType] || 100
baseResistivity(soilType) ==
    IF soilType \in DOMAIN SOIL_RESISTIVITY /\ SOIL_RESISTIVITY[soilType] # 0
    THEN Num(SOIL_RESISTIVITY[soilType])
    ELSE Num(100)

\* every ">=" of the table written ">"
getCouplingFactor_StrictBounds(spacing, length) ==
    LET ratio == Div(spacing, length)
    IN  IF Gt(ratio, Num(2)) THEN Num(0)
        ELSE IF Gt(ratio, Rat(3, 2)) THEN Rat(1, 10)
        ELSE IF Gt(ratio, Num(1)) THEN Rat(2, 10)
        ELSE IF Gt(ratio, Rat(7, 10)) THEN Rat(35, 100)
        ELSE IF Gt(ratio, Rat(5, 10)) THEN Rat(5, 10)
        ELSE Rat(7, 10)

\* the factors 0.35 and 0.5 exchanged
getCouplingFactor_Swapped(spacing, length) ==
    LET ratio == Div(spacing, length)
    IN  IF Geq(ratio, Num(2)) THEN Num(0)
        ELSE IF Geq(ratio, Rat(3, 2)) THEN Rat(1, 10)
        ELSE IF Geq(ratio, Num(1)) THEN Rat(2, 10)
        ELSE IF Geq(ratio, Rat(7, 10)) THEN Rat(5, 10)
        ELSE IF Geq(ratio, Rat(5, 10)) THEN Rat(35, 100)
        ELSE Rat(7, 10)

getCouplingFactor(spacing, length) ==
    LET ratio == Div(spacing, length)
    IN  IF Geq(ratio, Num(2)) THEN Num(0)
        ELSE IF Geq(ratio, Rat(3, 2)) THEN Rat(1, 10)
        ELSE IF Geq(ratio, Num(1)) THEN Rat(2, 10)
        ELSE IF Geq(ratio, Rat(7, 10)) THEN Rat(35, 100)
        ELSE IF Geq(ratio, Rat(5, 10)) THEN Rat(5, 10)
        ELSE Rat(7, 10)

\* the guard written "length < 0 || diameter < 0"
calculateSingleRodResistance_StrictGuard(resistivity, length, diameter) ==
    IF Lt(length, Num(0)) \/ Lt(diameter, Num(0)) THEN Infinity
    ELSE MulRounded(Div(resistivity, Mul(Mul(Num(2), MathPI), length)),
                    MathLog(Div(Mul(Num(4), length), diameter)))

\* the logarithm taken of diameter / (4 * length)
calculateSingleRodResistance_InvertedLog(resistivity, length, diameter) ==
    IF Leq(length, Num(0)) \/ Leq(diameter, Num(0)) THEN Infinity
    ELSE MulRounded(Div(resistivity, Mul(Mul(Num(2), MathPI), length)),
                    MathLog(Div(diameter, Mul(Num(4), length))))

calculateSingleRodResistance(resistivity, length, diameter) ==
    IF Leq(length, Num(0)) \/ Leq(diameter, Num(0)) THEN Infinity
    ELSE MulRounded(Div(resistivity, Mul(Mul(Num(2), MathPI), length)),
                    MathLog(Div(Mul(Num(4), length), diameter)))

\* the penalty counted per rod: 1 + coupling * rodCount
calculateParallelResistance_PenaltyPerRod(singleRodResistance, rodCount, couplingFactor) ==
    IF Leq(rodCount, Num(0)) THEN Infinity
    ELSE IF Eq(rodCount, Num(1)) THEN singleRodResistance
    ELSE Mul(Div(singleRodResistance, rodCount),
             Add(Num(1), Mul(couplingFactor, rodCount)))

\* singleR multiplied by rodCount instead of divided
calculateParallelResistance_Multiplied(singleRodResistance, rodCount, couplingFactor) ==
    IF Leq(rodCount, Num(0)) THEN Infinity
    ELSE IF Eq(rodCount, Num(1)) THEN singleRodResistance
    ELSE Mul(Mul(singleRodResistance, rodCount),
             Add(Num(1), Mul(couplingFactor, Sub(rodCount, Num(1)))))

\* the coupling penalty subtracted: 1 - coupling * (rodCount - 1)
calculateParallelResistance_PenaltySubtracted(singleRodResistance, rodCount, couplingFactor) ==
    IF Leq(rodCount, Num(0)) THEN Infinity
    ELSE IF Eq(rodCount, Num(1)) THEN singleRodResistance
    ELSE Mul(Div(singleRodResistance, rodCount),
             Sub(Num(1), Mul(couplingFactor, Sub(rodCount, Num(1)))))

calculateParallelResistance(singleRodResistance, rodCount, couplingFactor) ==
    IF Leq(rodCount, Num(0)) THEN Infinity
    ELSE IF Eq(rodCount, Num(1)) THEN singleRodResistance
    ELSE Mul(Div(singleRodResistance, rodCount),
             Add(Num(1), Mul(couplingFactor, Sub(rodCount, Num(1)))))

\* Math.max in place of Math.min
calculateRadialContribution_Max(baseResistance, radialCount, radialLength) ==
    IF Eq(radialCount, Num(0)) \/ Eq(radialLength, Num(0)) THEN Num(1)
    ELSE LET reductionFactor ==
                 MathMax(Rat(4, 10), Mul(Mul(radialCount, radialLength), Rat(5, 1000)))
         IN  Sub(Num(1), reductionFactor)

calculateRadialContribution(baseResistance, radialCount, radialLength) ==
    IF Eq(radialCount, Num(0)) \/ Eq(radialLength, Num(0)) THEN Num(1)
    ELSE LET reductionFactor ==
                 MathMin(Rat(4, 10), Mul(Mul(radialCount, radialLength), Rat(5, 1000)))
         IN  Sub(Num(1), reductionFactor)

\* the storm factor 0.2
weatherFactor_Storm02(weather) ==
    CASE weather = "rain"  -> Rat(5, 10)
      [] weather = "storm" -> Rat(2, 10)
      [] weather = "snow"  -> Rat(12, 10)
      [] weather = "sunny" -> Num(1)
      [] OTHER             -> Num(1)

\* the switch on the weather tag
weatherFactor(weather) ==
    CASE weather = "rain"  -> Rat(5, 10)
      [] weather = "storm" -> Rat(3, 10)
      [] weather = "snow"  -> Rat(12, 10)
      [] weather = "sunny" -> Num(1)
      [] OTHER             -> Num(1)

\* (1 - humidity * 0.3)
humidityTerm(humidity) == Sub(Num(1), Mul(humidity, Rat(3, 10)))

\* the humidity clamped to [0, 1] before use
adjustResistivityForWeather_Clamped(baseRes, weather, humidity) ==
    LET h      == MathMax(Num(0), MathMin(Num(1), humidity))
        factor == Mul(weatherFactor(weather), humidityTerm(h))
    IN  Mul(baseRes, factor)

adjustResistivityForWeather(baseRes, weather, humidity) ==
    LET factor == Mul(weatherFactor(weather), humidityTerm(humidity))
    IN  Mul(baseRes, factor)

\* the second guard tested before the first
calculateEfficiency_GuardsSwapped(resistance, targetResistance) ==
    IF Geq(resistance, Mul(targetResistance, Num(10))) THEN Num(0)
    ELSE IF Leq(resistance, Num(0)) THEN Num(100)
    ELSE MathMax(Num(0),
           MathMin(Num(100),
             Mul(Sub(Num(1), Div(Sub(resistance, targetResistance),
                                 Mul(targetResistance, Num(9)))),
                 Num(100))))

\* the interpolation measured from 0 instead of from the target
calculateEfficiency_FromZero(resistance, targetResistance) ==
    IF Leq(resistance, Num(0)) THEN Num(100)
    ELSE IF Geq(resistance, Mul(targetResistance, Num(10))) THEN Num(0)
    ELSE MathMax(Num(0),
           MathMin(Num(100),
             Mul(Sub(Num(1), Div(resistance, Mul(targetResistance, Num(10)))),
                 Num(100))))

\* without the Math.min(100, ...)
calculateEfficiency_NoUpperClamp(resistance, targetResistance) ==
    IF Leq(resistance, Num(0)) THEN Num(100)
    ELSE IF Geq(resistance, Mul(targetResistance, Num(10))) THEN Num(0)
    ELSE MathMax(Num(0),
             Mul(Sub(Num(1), Div(Sub(resistance, targetResistance),
                                 Mul(targetResistance, Num(9)))),
                 Num(100)))

calculateEfficiency(resistance, targetResistance) ==
    IF Leq(resistance, Num(0)) THEN Num(100)
    ELSE IF Geq(resistance, Mul(targetResistance, Num(10))) THEN Num(0)
    ELSE MathMax(Num(0),
           MathMin(Num(100),
             Mul(Sub(Num(1), Div(Sub(resistance, targetResistance),
                                 Mul(targetResistance, Num(9)))),
                 Num(100))))

\* the quotient inverted: resistance / voltage
calculateFaultCurrent_Inverted(voltage, resistance) ==
    IF Leq(resistance, Num(0)) THEN Num(0)
    ELSE Div(resistance, voltage)

calculateFaultCurrent(voltage, resistance) ==
    IF Leq(resistance, Num(0)) THEN Num(0)
    ELSE Div(voltage, resistance)

\* every "<=" of the classification written "<"
getSystemStatus_StrictBounds(resistance) ==
    IF Lt(resistance, Num(5))
    THEN [status |-> "excellent", color |-> "#00ff88", message |-> "Excelente"]
    ELSE IF Lt(resistance, Num(10))
    THEN [status |-> "good", color |-> "#88ff00", message |-> "Bueno"]
    ELSE IF Lt(resistance, Num(25))
    THEN [status |-> "warning", color |-> "#ffaa00", message |-> "Advertencia"]
    ELSE [status |-> "danger", color |-> "#ff4444", message |-> "Peligro"]

\* the colour of warning given to danger as well
getSystemStatus_DangerInOrange(resistance) ==
    IF Leq(resistance, Num(5))
    THEN [status |-> "excellent", color |-> "#00ff88", message |-> "Excelente"]
    ELSE IF Leq(resistance, Num(10))
    THEN [status |-> "good", color |-> "#88ff00", message |-> "Bueno"]
    ELSE IF Leq(resistance, Num(25))
    THEN [status |-> "warning", color |-> "#ffaa00", message |-> "Advertencia"]
    ELSE [status |-> "danger", color |-> "#ffaa00", message |-> "Peligro"]

\* excellent up to 10
getSystemStatus_ExcellentTo10(resistance) ==
    IF Leq(resistance, Num(10))
    THEN [status |-> "excellent", color |-> "#00ff88", message |-> "Excelente"]
    ELSE IF Leq(resistance, Num(25))
    THEN [status |-> "warning", color |-> "#ffaa00", message |-> "Advertencia"]
    ELSE [status |-> "danger", color |-> "#ff4444", message |-> "Peligro"]

getSystemStatus(resistance) ==
    IF Leq(resistance, Num(5))
    THEN [status |-> "excellent", color |-> "#00ff88", message |-> "Excelente"]
    ELSE IF Leq(resistance, Num(10))
    THEN [status |-> "good", color |-> "#88ff00", message |-> "Bueno"]
    ELSE IF Leq(resistance, Num(25))
    THEN [status |-> "warning", color |-> "#ffaa00", message |-> "Advertencia"]
    ELSE [status |-> "danger", color |-> "#ff4444", message |-> "Peligro"]

\* the default rod spacing equal to the default rod length
GroundingSystem_SpacingOfLength ==
    [rodCount |-> Num(4), rodLength |-> Rat(24, 10), rodDiameter |-> Rat(16, 1000),
     rodSpacing |-> Rat(24, 10), radialCount |-> Num(8), radialLength |-> Num(5),
     soilType |-> "clay", weather |-> "sunny", humidity |-> Rat(5, 10),
     faultVoltage |-> Num(220), targetResistance |-> Num(5)]

\* new GroundingSystem()
GroundingSystem ==
    [rodCount |-> Num(4), rodLength |-> Rat(24, 10), rodDiameter |-> Rat(16, 1000),
     rodSpacing |-> Num(3), radialCount |-> Num(8), radialLength |-> Num(5),
     soilType |-> "clay", weather |-> "sunny", humidity |-> Rat(5, 10),
     faultVoltage |-> Num(220), targetResistance |-> Num(5)]

\* The local variables of GroundingSystem.calculate() when it returns, each
\* const of the body being a parameter of the step that follows it.
calculateAfterTotal(this, base, resistivity, singleRodR, coupling, parallelR, radialFactor, totalR) ==
    [base |-> base, resistivity |-> resistivity, singleRodR |-> singleRodR,
     coupling |-> coupling, parallelR |-> parallelR,
     radialFactor |-> radialFactor, totalR |-> totalR,
     efficiency |-> calculateEfficiency(totalR, this.targetResistance),
     faultCurrent |-> calculateFaultCurrent(this.faultVoltage, totalR),
     status |-> getSystemStatus(totalR)]

calculateAfterRadial(this, base, resistivity, singleRodR, coupling, parallelR, radialFactor) ==
    calculateAfterTotal(this, base, resistivity, singleRodR, coupling, parallelR,
                        radialFactor, Mul(parallelR, radialFactor))

calculateAfterParallel(this, base, resistivity, singleRodR, coupling, parallelR) ==
    calculateAfterRadial(this, base, resistivity, singleRodR, coupling, parallelR,
                         calculateRadialContribution(parallelR, this.radialCount,
                                                     this.radialLength))

calculateAfterSingle(this, base, resistivity, singleRodR, coupling) ==
    calculateAfterParallel(this, base, resistivity, singleRodR, coupling,
                           calculateParallelResistance(singleRodR, this.rodCount,
                                                       coupling))

calculateAfterResistivity(this, base, resistivity) ==
    calculateAfterSingle(this, base, resistivity,
                         calculateSingleRodResistance(resistivity, this.rodLength,
                                                      this.rodDiameter),
                         getCouplingFactor(this.rodSpacing, this.rodLength))

calculateAfterBase(this, base) ==
    calculateAfterResistivity(this, base,
                              adjustResistivityForWeather(base, this.weather,
                                                          this.humidity))

calculateLocals(this) == calculateAfterBase(this, baseResistivity(this.soilType))

\* the base resistivity reported in place of the adjusted one
calculateReturn_BaseResistivity(l) ==
    [resistivity |-> l.base,
     singleRodResistance |-> l.singleRodR,
     couplingFactor |-> l.coupling,
     totalResistance |-> l.totalR,
     efficiency |-> l.efficiency,
     faultCurrent |-> l.faultCurrent,
     status |-> l.status]

\* The object literal GroundingSystem.calculate() returns, from its locals.
calculateReturn(l) ==
    [resistivity |-> l.resistivity,
     singleRodResistance |-> l.singleRodR,
     couplingFactor |-> l.coupling,
     totalResistance |-> l.totalR,
     efficiency |-> l.efficiency,
     faultCurrent |-> l.faultCurrent,
     status |-> l.status]

\* the efficiency averaged with the one the previous call computed
calculate_Incremental(this) ==
    IF locals = <<>> THEN calculateReturn(calculateLocals(this))
    ELSE [calculateReturn(calculateLocals(this)) EXCEPT
              !.efficiency = Div(Add(@, locals[1].efficiency), Num(2))]

\* GroundingSystem.calculate(): the value it returns
calculate(this) == calculateReturn(calculateLocals(this))

\* the humidity field normalised to [0, 1] during the call
calculateThis_ClampsHumidity(this) ==
    [this EXCEPT !.humidity = MathMax(Num(0), MathMin(Num(1), @))]

\* GroundingSystem.calculate(): the fields of the receiver when it returns
\* (the body holds no assignment to a field of this)
calculateThis(this) == this

(***************************************************************************)
(* Configurations a caller can set by direct field assignment.             *)
(***************************************************************************)
MaxRodCount == 3

BigRadialCount == 100

RodCounts == {Num(k) : k \in -1 .. MaxRodCount}

RodLengths == {Num(-1), Num(0), Num(1), Rat(24, 10)}

RodDiameters == {Num(0), Rat(16, 1000), Num(4), Num(5)}

RodSpacings == {Rat(4, 10), Rat(5, 10), Rat(7, 10), Num(1), Rat(15, 10), Num(2), Num(3)}

RadialCounts == {Num(0), Num(8), Num(BigRadialCount)}

RadialLengths == {Num(0), Num(5)}

UnknownSoil == "peat"

UnknownWeather == "fog"

SoilTypes == DOMAIN SOIL_RESISTIVITY \cup {UnknownSoil}

Weathers == {"sunny", "rain", "storm", "snow", UnknownWeather}

Humidities == {Num(0), Rat(5, 10), Num(1), Num(2)}

TargetResistances == {Num(0), Num(1), Num(5)}

\* every geometry, under a few environments
GeometrySweep ==
    [rodCount : RodCounts, rodLength : RodLengths, rodDiameter : RodDiameters,
     rodSpacing : RodSpacings, radialCount : RadialCounts,
     radialLength : RadialLengths,
     soilType : {"clay", UnknownSoil}, weather : {"sunny", "storm"},
     humidity : {Rat(5, 10), Num(1)},
     faultVoltage : {Num(220)}, targetResistance : {Num(5)}]

\* every environment, under the default geometry with any rod count
EnvironmentSweep ==
    [rodCount : RodCounts, rodLength : {GroundingSystem.rodLength},
     rodDiameter : {GroundingSystem.rodDiameter},
     rodSpacing : {GroundingSystem.rodSpacing},
     radialCount : {GroundingSystem.radialCount},
     radialLength : {GroundingSystem.radialLength},
     soilType : SoilTypes, weather : Weathers, humidity : Humidities,
     faultVoltage : {Num(220)}, targetResistance : TargetResistances]

Configurations == GeometrySweep \cup EnvironmentSweep \cup {GroundingSystem}

\* no direct call of an exported function has been made
NoCall == args = <<>> /\ returned = <<>>

\* no simulator is constructed around the GroundingSystem
NoSimulator ==
    /\ simulator = <<>>
    /\ antenna = <<>>
    /\ terrain = <<>>
    /\ climate = <<>>
    /\ currentFlow = <<>>
    /\ display = <<>>
    /\ ui = <<>>

InitCfg ==
    /\ gs \in Configurations
    /\ metrics = <<>>
    /\ locals = <<>>
    /\ NoCall
    /\ NoSimulator

\* gs.calculate()
Calculate ==
    /\ metrics' = <<calculate(gs)>>
    /\ locals' = <<calculateLocals(gs)>>
    /\ gs' = calculateThis(gs)
    /\ UNCHANGED <<callVars, simVars>>

NextCfg == Calculate

SpecCfg == InitCfg /\ [][NextCfg]_vars

(***************************************************************************)
(* Direct calls of calculateEfficiency, calculateFaultCurrent and          *)
(* getSystemStatus, on arguments a caller can pass.                        *)
(***************************************************************************)
FnResistances ==
    {NegInfinity, Num(-1), Num(0), Rat(1, 2), Num(1), Num(3), Num(5),
     Rat(501, 100), Num(10), Rat(1001, 100), Num(25), Rat(2501, 100),
     Num(50), Num(100), Infinity, NaN}

FnTargets ==
    {Num(-1), Num(0), Rat(1, 2), Num(1), Num(5), Num(10), Infinity, NaN}

FnVoltages == {Num(0), Num(110), Num(220)}

InitFn ==
    /\ args \in {<<a>> : a \in [resistance : FnResistances,
                                 targetResistance : FnTargets,
                                 voltage : FnVoltages]}
    /\ returned = <<>>
    /\ gs = GroundingSystem
    /\ metrics = <<>>
    /\ locals = <<>>
    /\ NoSimulator

\* calculateEfficiency(resistance, targetResistance)
CallEfficiency ==
    /\ returned' = <<[fn |-> "calculateEfficiency",
                      value |-> calculateEfficiency(args[1].resistance,
                                                    args[1].targetResistance)]>>
    /\ UNCHANGED <<gs, metrics, locals, args, simVars>>

\* calculateFaultCurrent(voltage, resistance)
CallFaultCurrent ==
    /\ returned' = <<[fn |-> "calculateFaultCurrent",
                      value |-> calculateFaultCurrent(args[1].voltage,
                                                      args[1].resistance)]>>
    /\ UNCHANGED <<gs, metrics, locals, args, simVars>>

\* getSystemStatus(resistance)
CallStatus ==
    /\ returned' = <<[fn |-> "getSystemStatus",
                      value |-> getSystemStatus(args[1].resistance)]>>
    /\ UNCHANGED <<gs, metrics, locals, args, simVars>>

NextFn == CallEfficiency \/ CallFaultCurrent \/ CallStatus

SpecFn == InitFn /\ [][NextFn]_vars

(***************************************************************************)
(* The simulator (main.js) and the systems it drives.                      *)
(***************************************************************************)
\* new AntennaSystem(scene)
AntennaSystem ==
    [mastHeight |-> Num(10), radialCount |-> Num(8), radialLength |-> Num(5),
     rodCount |-> Num(4), rodLength |-> Rat(24, 10),
     rodDiameter |-> Rat(16, 1000), rodSpacing |-> Num(3)]

\* new Terrain(scene)
Terrain ==
    [currentSoilType |-> "clay", humidity |-> Rat(5, 10), editMode |-> FALSE,
     brushSize |-> Num(3), brushStrength |-> Rat(5, 10), brushMode |-> "raise"]

\* the keys of Terrain.soilTypes
TerrainSoilTypes == {"wet", "clay", "loam", "sandy", "gravel", "rocky", "dry"}

\* new ClimateSystem(scene)
ClimateSystem == [weather |-> "sunny", timeOfDay |-> Rat(5, 10), humidity |-> Rat(5, 10)]

\* new CurrentFlowSystem(scene)
CurrentFlowSystem ==
    [intensity |-> Num(1), highIntensityColor |-> "0xffff00",
     lowIntensityColor |-> "0x00ff88", isActive |-> TRUE]

\* the fields the GroundingSimulator constructor sets itself
GroundingSimulator == [isEditing |-> FALSE, placementMode |-> "null"]

\* Terrain.setSoilType(type)
setSoilType(this, type) ==
    IF type \in TerrainSoilTypes THEN [this EXCEPT !.currentSoilType = type]
    ELSE this

\* Terrain.setHumidity(value)
setHumidity(this, value) ==
    [this EXCEPT !.humidity = MathMax(Num(0), MathMin(Num(1), value))]

\* Terrain.setEditMode(enabled)
setEditMode(this, enabled) == [this EXCEPT !.editMode = enabled]

\* ClimateSystem.setWeather(weather)
setWeather(this, weather) ==
    [this EXCEPT !.weather = weather,
                 !.humidity = CASE weather = "rain"  -> Rat(9, 10)
                                [] weather = "snow"  -> Rat(7, 10)
                                [] weather = "storm" -> Num(1)
                                [] OTHER             -> Rat(3, 10)]

\* ClimateSystem.getHumidity()
getHumidity(this) == this.humidity

\* ClimateSystem.setTimeOfDay(time)
setTimeOfDay(this, time) ==
    [this EXCEPT !.timeOfDay = MathMax(Num(0), MathMin(Num(1), time))]

\* the value is stored as given
setIntensity_Unclamped(this, value) == [this EXCEPT !.intensity = value]

\* CurrentFlowSystem.setIntensity(value)
setIntensity(this, value) ==
    [this EXCEPT !.intensity = MathMax(Num(0), MathMin(Num(2), value))]

\* the bands exclude their upper bounds
updateColors_StrictBounds(this, resistance) ==
    IF Lt(resistance, Num(5))
    THEN [this EXCEPT !.highIntensityColor = "0x00ff00", !.lowIntensityColor = "0x00ff88"]
    ELSE IF Lt(resistance, Num(10))
    THEN [this EXCEPT !.highIntensityColor = "0xffff00", !.lowIntensityColor = "0x88ff00"]
    ELSE IF Lt(resistance, Num(25))
    THEN [this EXCEPT !.highIntensityColor = "0xffaa00", !.lowIntensityColor = "0xffff00"]
    ELSE [this EXCEPT !.highIntensityColor = "0xff4400", !.lowIntensityColor = "0xff8800"]

\* CurrentFlowSystem.updateColors(resistance)
updateColors(this, resistance) ==
    IF Leq(resistance, Num(5))
    THEN [this EXCEPT !.highIntensityColor = "0x00ff00", !.lowIntensityColor = "0x00ff88"]
    ELSE IF Leq(resistance, Num(10))
    THEN [this EXCEPT !.highIntensityColor = "0xffff00", !.lowIntensityColor = "0x88ff00"]
    ELSE IF Leq(resistance, Num(25))
    THEN [this EXCEPT !.highIntensityColor = "0xffaa00", !.lowIntensityColor = "0xffff00"]
    ELSE [this EXCEPT !.highIntensityColor = "0xff4400", !.lowIntensityColor = "0xff8800"]

\* CurrentFlowSystem.setActive(active)
setActive(this, active) == [this EXCEPT !.isActive = active]

\* new UIManager(callbacks): this.params
UIManager ==
    [antenna    |-> [mastHeight |-> Num(10), radialCount |-> Num(8),
                     radialLength |-> Num(5)],
     groundRods |-> [rodCount |-> Num(4), rodLength |-> Rat(24, 10),
                     rodSpacing |-> Num(3)],
     soil       |-> [type |-> "clay", humidity |-> Rat(5, 10)],
     climate    |-> [weather |-> "sunny", timeOfDay |-> Rat(5, 10)],
     terrain    |-> [editMode |-> FALSE, brushSize |-> Num(3),
                     brushStrength |-> Rat(5, 10), brushMode |-> "raise"],
     display    |-> [showCurrentFlow |-> TRUE, showGrid |-> TRUE,
                     flowIntensity |-> Num(1)],
     electrical |-> [faultVoltage |-> Num(220), targetResistance |-> Num(5)]]

\* the params are left as they are
updateParams_Ignored(this, category, key, value) == this

\* UIManager.updateParams(category, key, value)
updateParams(this, category, key, value) ==
    IF category \in DOMAIN this /\ key \in DOMAIN this[category]
    THEN [this EXCEPT ![category][key] = value]
    ELSE this

\* a lil-gui controller writes the property it is bound to before it calls
\* its onChange callback
controllerSetValue(this, category, property, value) ==
    [this EXCEPT ![category][property] = value]

\* the current flow after updateColors and setIntensity in updateCalculations
flowAfterCalculations(flow, m) ==
    setIntensity(updateColors(flow, m.totalResistance),
                 Add(Rat(5, 10), Div(m.efficiency, Num(100))))

\* the display is not handed the new metrics
UpdateCalculations_DisplayKept(g) ==
    /\ gs' = calculateThis(g)
    /\ locals' = <<calculateLocals(g)>>
    /\ \E m \in {calculate(g)} :
           /\ metrics' = <<m>>
           /\ display' = display
           /\ currentFlow' = flowAfterCalculations(currentFlow, m)

\* GroundingSimulator.updateCalculations(), g being the fields of
\* this.groundingSystem when it is called and m the const metrics
UpdateCalculations(g) ==
    /\ gs' = calculateThis(g)
    /\ locals' = <<calculateLocals(g)>>
    /\ \E m \in {calculate(g)} :
           /\ metrics' = <<m>>
           /\ display' = <<m>>
           /\ currentFlow' = flowAfterCalculations(currentFlow, m)

\* values handleAntennaChange is called with, by parameter
AntennaInputs ==
    [mastHeight   |-> {Num(10), Num(15)},
     radialCount  |-> {Num(8)},
     radialLength |-> {Num(5)},
     rodCount     |-> {Num(1), Num(4)},
     rodLength    |-> {Rat(24, 10)},
     rodSpacing   |-> {Num(3)}]

\* values handleTerrainChange is called with, by parameter; the humidity
\* is any number
TerrainInputs ==
    [soilType      |-> {"clay", "rocky"},
     humidity      |-> {Rat(1, 2), Rat(3, 2)},
     editMode      |-> BOOLEAN,
     brushMode     |-> {"raise"},
     brushSize     |-> {Num(3)},
     brushStrength |-> {Rat(5, 10)}]

\* values handleClimateChange is called with, by parameter
ClimateInputs ==
    [weather   |-> {"sunny", "rain", "snow", "storm"},
     timeOfDay |-> {Rat(5, 10), Rat(3, 4)}]

\* values handleAction is called with, by action; the flow intensity is
\* any number
ActionInputs ==
    [addObstacle       |-> {"tree"},
     clearObstacles    |-> {"undefined"},
     resetCamera       |-> {"undefined"},
     screenshot        |-> {"undefined"},
     toggleCurrentFlow |-> BOOLEAN,
     setFlowIntensity  |-> {Rat(5, 2)},
     toggleGrid        |-> BOOLEAN]

\* the mousedown events: button and ctrlKey
MouseEvents == [button : {0, 2}, ctrlKey : BOOLEAN]

\* the keydown events: key
KeyEvents == {"Escape", "Control"}

\* the state when init() has returned
Init ==
    /\ gs = GroundingSystem
    /\ simulator = GroundingSimulator
    /\ antenna = AntennaSystem
    /\ terrain = Terrain
    /\ climate = ClimateSystem
    /\ ui = UIManager
    /\ locals = <<calculateLocals(gs)>>
    /\ metrics = <<calculate(gs)>>
    /\ display = metrics
    /\ \E m \in {metrics[1]} :
           currentFlow = flowAfterCalculations(CurrentFlowSystem, m)
    /\ NoCall

\* a rod length change also sets the rod diameter, to a hundredth of the
\* length
handleAntennaChange_DiameterFollowsLength(u, param, value) ==
    /\ antenna' = [antenna EXCEPT ![param] = value]
    /\ \E g \in {CASE param = "mastHeight" -> gs
                   [] param = "rodLength" -> [gs EXCEPT !.rodLength = value,
                                                        !.rodDiameter = Div(value, Num(100))]
                   [] OTHER -> [gs EXCEPT ![param] = value]} :
           UpdateCalculations(g)
    /\ ui' = u
    /\ UNCHANGED <<simulator, terrain, climate, callVars>>

\* a rod spacing change redraws the antenna and does not reach the
\* GroundingSystem
handleAntennaChange_SpacingOnlyDrawn(u, param, value) ==
    /\ antenna' = [antenna EXCEPT ![param] = value]
    /\ \E g \in {IF param \in {"mastHeight", "rodSpacing"} THEN gs
                  ELSE [gs EXCEPT ![param] = value]} :
           UpdateCalculations(g)
    /\ ui' = u
    /\ UNCHANGED <<simulator, terrain, climate, callVars>>

\* GroundingSimulator.handleAntennaChange(param, value), u being the
\* UIManager's params when it is called
handleAntennaChange(u, param, value) ==
    /\ antenna' = [antenna EXCEPT ![param] = value]
    /\ \E g \in {IF param = "mastHeight" THEN gs
                  ELSE [gs EXCEPT ![param] = value]} :
           UpdateCalculations(g)
    /\ ui' = u
    /\ UNCHANGED <<simulator, terrain, climate, callVars>>

\* GroundingSimulator.handleTerrainChange(param, value)
handleTerrainChange(u, param, value) ==
    /\ terrain' = CASE param = "soilType" -> setSoilType(terrain, value)
                    [] param = "humidity" -> setHumidity(terrain, value)
                    [] param = "editMode" -> setEditMode(terrain, value)
                    [] OTHER -> [terrain EXCEPT ![param] = value]
    /\ simulator' = IF param = "editMode"
                    THEN [simulator EXCEPT !.isEditing = value]
                    ELSE simulator
    /\ \E g \in {CASE param = "soilType" -> [gs EXCEPT !.soilType = value]
                    [] param = "humidity" -> [gs EXCEPT !.humidity = value]
                    [] OTHER -> gs} :
           UpdateCalculations(g)
    /\ ui' = u
    /\ UNCHANGED <<antenna, climate, callVars>>

\* the metrics are computed when the weather is written and the humidity
\* is not yet
handleClimateChange_RecomputedBetween(u, param, value) ==
    /\ climate' = IF param = "weather" THEN setWeather(climate, value)
                  ELSE setTimeOfDay(climate, value)
    /\ terrain' = IF param = "weather"
                  THEN setHumidity(terrain, getHumidity(climate'))
                  ELSE terrain
    /\ ui' = IF param = "weather"
             THEN updateParams(u, "soil", "humidity", getHumidity(climate'))
             ELSE u
    /\ gs' = IF param = "weather"
             THEN [gs EXCEPT !.weather = value,
                             !.humidity = getHumidity(climate')]
             ELSE gs
    /\ \E g \in {IF param = "weather" THEN [gs EXCEPT !.weather = value]
                  ELSE gs} :
           /\ locals' = <<calculateLocals(g)>>
           /\ \E m \in {calculate(g)} :
                  /\ metrics' = <<m>>
                  /\ display' = <<m>>
                  /\ currentFlow' = flowAfterCalculations(currentFlow, m)
    /\ UNCHANGED <<simulator, antenna, callVars>>

\* GroundingSimulator.handleClimateChange(param, value)
handleClimateChange(u, param, value) ==
    /\ climate' = IF param = "weather" THEN setWeather(climate, value)
                  ELSE setTimeOfDay(climate, value)
    /\ terrain' = IF param = "weather"
                  THEN setHumidity(terrain, getHumidity(climate'))
                  ELSE terrain
    /\ ui' = IF param = "weather"
             THEN updateParams(u, "soil", "humidity", getHumidity(climate'))
             ELSE u
    /\ \E g \in {IF param = "weather"
                  THEN [gs EXCEPT !.weather = value,
                                  !.humidity = getHumidity(climate')]
                  ELSE gs} :
           UpdateCalculations(g)
    /\ UNCHANGED <<simulator, antenna, callVars>>

\* GroundingSimulator.handleAction(action, value); clearObstacles,
\* resetCamera, screenshot and toggleGrid act on the scene only
handleAction(u, action, value) ==
    /\ simulator' = IF action = "addObstacle"
                    THEN [simulator EXCEPT !.placementMode = value]
                    ELSE simulator
    /\ currentFlow' = CASE action = "toggleCurrentFlow" -> setActive(currentFlow, value)
                        [] action = "setFlowIntensity" -> setIntensity(currentFlow, value)
                        [] OTHER -> currentFlow
    /\ ui' = u
    /\ UNCHANGED <<gs, metrics, locals, display, antenna, terrain, climate, callVars>>

\* GroundingSimulator.onMouseDown(event); placeObstacle() and editTerrain()
\* act on the scene, and placeObstacle() leaves the placement mode
onMouseDown(event) ==
    /\ simulator' = IF simulator.placementMode # "null" /\ event.button = 0
                    THEN [simulator EXCEPT !.placementMode = "null"]
                    ELSE simulator
    /\ UNCHANGED <<gs, metrics, locals, display, antenna, terrain, climate,
                   currentFlow, ui, callVars>>

\* Escape leaves the Terrain's edit mode as it is
onKeyDown_TerrainKeptEditing(key) ==
    /\ simulator' = IF key = "Escape"
                    THEN [simulator EXCEPT !.placementMode = "null",
                                           !.isEditing = FALSE]
                    ELSE simulator
    /\ terrain' = terrain
    /\ ui' = IF key = "Escape"
             THEN updateParams(ui, "terrain", "editMode", FALSE)
             ELSE ui
    /\ UNCHANGED <<gs, metrics, locals, display, antenna, climate,
                   currentFlow, callVars>>

\* GroundingSimulator.onKeyDown(event)
onKeyDown(key) ==
    /\ simulator' = IF key = "Escape"
                    THEN [simulator EXCEPT !.placementMode = "null",
                                           !.isEditing = FALSE]
                    ELSE simulator
    /\ terrain' = IF key = "Escape" THEN setEditMode(terrain, FALSE) ELSE terrain
    /\ ui' = IF key = "Escape"
             THEN updateParams(ui, "terrain", "editMode", FALSE)
             ELSE ui
    /\ UNCHANGED <<gs, metrics, locals, display, antenna, climate,
                   currentFlow, callVars>>

\* a call of handleAntennaChange
HandleAntennaChange ==
    \E param \in DOMAIN AntennaInputs :
        \E value \in AntennaInputs[param] :
            handleAntennaChange(ui, param, value)

\* a call of handleTerrainChange
HandleTerrainChange ==
    \E param \in DOMAIN TerrainInputs :
        \E value \in TerrainInputs[param] :
            handleTerrainChange(ui, param, value)

\* a call of handleClimateChange
HandleClimateChange ==
    \E param \in DOMAIN ClimateInputs :
        \E value \in ClimateInputs[param] :
            handleClimateChange(ui, param, value)

\* a call of handleAction
HandleAction ==
    \E action \in DOMAIN ActionInputs :
        \E value \in ActionInputs[action] :
            handleAction(ui, action, value)

\* a mousedown event
OnMouseDown == \E event \in MouseEvents : onMouseDown(event)

\* a keydown event
OnKeyDown == \E key \in KeyEvents : onKeyDown(key)

Next ==
    \/ HandleAntennaChange
    \/ HandleTerrainChange
    \/ HandleClimateChange
    \/ HandleAction
    \/ OnMouseDown
    \/ OnKeyDown

Spec == Init /\ [][Next]_vars

(***************************************************************************)
(* The simulator driven through the controllers of the UIManager: a        *)
(* controller writes the parameter it is bound to, then calls its          *)
(* onChange callback, which calls the simulator's handler.                 *)
(***************************************************************************)
\* the values of the antenna and ground-rod sliders, by parameter
AntennaSliders ==
    [mastHeight   |-> {Num(3), Num(10)},
     radialCount  |-> {Num(0), Num(8)},
     radialLength |-> {Num(5), Num(15)},
     rodCount     |-> {Num(4), Num(12)},
     rodLength    |-> {Rat(24, 10), Num(5)},
     rodSpacing   |-> {Num(1), Num(3)}]

\* the category of UIManager.params each slider is bound to
AntennaSliderCategory ==
    [mastHeight |-> "antenna", radialCount |-> "antenna", radialLength |-> "antenna",
     rodCount |-> "groundRods", rodLength |-> "groundRods", rodSpacing |-> "groundRods"]

\* values of the humidity slider
HumiditySlider == {Num(0), Rat(1, 2), Num(1)}

\* the options of the weather controller
WeatherOptions == {"sunny", "rain", "snow", "storm"}

\* a slider of the antenna or ground-rod folder is moved
AntennaControl ==
    \E param \in DOMAIN AntennaSliders :
        \E value \in AntennaSliders[param] :
            handleAntennaChange(
                controllerSetValue(ui, AntennaSliderCategory[param], param, value),
                param, value)

\* the humidity slider is moved
HumidityControl ==
    \E value \in HumiditySlider :
        handleTerrainChange(controllerSetValue(ui, "soil", "humidity", value),
                            "humidity", value)

\* a weather is selected
WeatherControl ==
    \E value \in WeatherOptions :
        handleClimateChange(controllerSetValue(ui, "climate", "weather", value),
                            "weather", value)

NextUI == AntennaControl \/ HumidityControl \/ WeatherControl

SpecUI == Init /\ [][NextUI]_vars

(***************************************************************************)
(* Properties                                                              *)
(***************************************************************************)
Computed == metrics # <<>>

\* rodSpacing, humidity, faultVoltage and targetResistance in their domain
OthersValid(g) ==
    /\ Gt(g.rodSpacing, Num(0))
    /\ Leq(Num(0), g.humidity) /\ Leq(g.humidity, Num(1))
    /\ Gt(g.faultVoltage, Num(0))
    /\ Gt(g.targetResistance, Num(0))

\* the declared valid domain of a configuration
ValidDomain(g) ==
    /\ OthersValid(g)
    /\ Geq(g.rodCount, Num(1))
    /\ Gt(g.rodLength, Num(0))
    /\ Gt(g.rodDiameter, Num(0))
    /\ Geq(g.radialCount, Num(0))
    /\ Geq(g.radialLength, Num(0))
    /\ g.soilType \in {"wet", "clay", "loam", "sandy", "gravel", "rocky", "dry"}
    /\ g.weather \in {"sunny", "rain", "storm", "snow"}

\* the resistivity table as the data model states it
SoilTable(soil) ==
    CASE soil = "wet"    -> Num(10)
      [] soil = "clay"   -> Num(40)
      [] soil = "loam"   -> Num(100)
      [] soil = "sandy"  -> Num(200)
      [] soil = "gravel" -> Num(400)
      [] soil = "rocky"  -> Num(1000)
      [] soil = "dry"    -> Num(1500)
      [] OTHER           -> Num(100)

C2_Degenerate ==
    (/\ Computed
     /\ OthersValid(gs)
     /\ \/ Leq(gs.rodLength, Num(0))
        \/ Leq(gs.rodDiameter, Num(0))
        \/ Leq(gs.rodCount, Num(0)))
    => LET m == metrics[1]
       IN  /\ m.totalResistance = Infinity
           /\ m.efficiency = Num(0)
           /\ m.status.status = "danger"
           /\ m.faultCurrent = Num(0)
           /\ (/\ gs.rodCount = Num(0)
               /\ Gt(gs.rodLength, Num(0))
               /\ Gt(gs.rodDiameter, Num(0)))
              => IsFinite(m.singleRodResistance)

\* no rods, a positive rod geometry: finite single-rod value, infinite total
C2_Witness ==
    /\ Computed
    /\ OthersValid(gs)
    /\ gs.rodCount = Num(0)
    /\ Gt(gs.rodLength, Num(0))
    /\ Gt(gs.rodDiameter, Num(0))
    /\ IsFinite(metrics[1].singleRodResistance)
    /\ metrics[1].totalResistance = Infinity

\* C3 as stated: every configuration of the valid domain has a strictly
\* positive totalResistance.
C3_Original ==
    (Computed /\ ValidDomain(gs)) => Gt(metrics[1].totalResistance, Num(0))

\* C3 amended: every configuration of the valid domain whose rod diameter is
\* below four times the rod length has a strictly positive (finite)
\* totalResistance, so the fault current is the quotient voltage/resistance
\* and neither "resistance <= 0" guard is taken.
C3_PositiveResistance ==
    (Computed /\ ValidDomain(gs) /\ Lt(gs.rodDiameter, Mul(Num(4), gs.rodLength)))
    => LET m == metrics[1]
       IN  /\ Gt(m.totalResistance, Num(0))
           /\ IsFinite(m.totalResistance)
           /\ m.faultCurrent = Div(gs.faultVoltage, m.totalResistance)
           /\ Gt(m.faultCurrent, Num(0))

C3_Witness ==
    /\ Computed
    /\ ValidDomain(gs)
    /\ Lt(gs.rodDiameter, Mul(Num(4), gs.rodLength))
    /\ Gt(metrics[1].totalResistance, Num(0))
    /\ Gt(metrics[1].faultCurrent, Num(0))
    /\ Lt(metrics[1].efficiency, Num(100))

\* C4: calculateParallelResistance is +Infinity for rodCount <= 0, singleR
\* itself for rodCount = 1 whatever the coupling, and otherwise
\* (singleR / rodCount) * (1 + coupling * (rodCount - 1)).
C4_ParallelFormula ==
    Computed =>
        LET l == locals[1]
            n == gs.rodCount
        IN  l.parallelR =
                IF Leq(n, Num(0)) THEN Infinity
                ELSE IF n = Num(1) THEN l.singleRodR
                ELSE Mul(Div(l.singleRodR, n),
                         Add(Num(1), Mul(l.coupling, Sub(n, Num(1)))))

\* several coupled rods: the result differs from the ideal singleR / n
C4_Witness ==
    /\ Computed
    /\ Geq(gs.rodCount, Num(2))
    /\ Gt(locals[1].coupling, Num(0))
    /\ IsFinite(locals[1].singleRodR)
    /\ Gt(locals[1].singleRodR, Num(0))
    /\ Gt(locals[1].parallelR, Div(locals[1].singleRodR, gs.rodCount))

\* C5 as stated: for rodCount >= 1, one more rod never gives a larger
\* parallel resistance, for every single-rod resistance and coupling factor
\* that the formulas produce.
C5_Original ==
    (Computed /\ Geq(gs.rodCount, Num(1)))
    => Leq(calculateParallelResistance(locals[1].singleRodR,
                                       Add(gs.rodCount, Num(1)),
                                       locals[1].coupling),
           locals[1].parallelR)

\* C5 amended: the same, for every non-negative single-rod resistance.
C5_MoreRodsNeverWorse ==
    (Computed /\ Geq(gs.rodCount, Num(1)) /\ Geq(locals[1].singleRodR, Num(0)))
    => Leq(calculateParallelResistance(locals[1].singleRodR,
                                       Add(gs.rodCount, Num(1)),
                                       locals[1].coupling),
           locals[1].parallelR)

\* a positive finite single-rod resistance that one more rod strictly lowers
C5_Witness ==
    /\ Computed
    /\ Geq(gs.rodCount, Num(1))
    /\ IsFinite(locals[1].singleRodR)
    /\ Gt(locals[1].singleRodR, Num(0))
    /\ Gt(locals[1].coupling, Num(0))
    /\ Lt(calculateParallelResistance(locals[1].singleRodR,
                                      Add(gs.rodCount, Num(1)),
                                      locals[1].coupling),
          locals[1].parallelR)

\* the coupling table as the design states it, band by band
CouplingStep(ratio) ==
    CASE Geq(ratio, Num(2))                             -> Num(0)
      [] Geq(ratio, Rat(3, 2)) /\ Lt(ratio, Num(2))     -> Rat(1, 10)
      [] Geq(ratio, Num(1)) /\ Lt(ratio, Rat(3, 2))     -> Rat(1, 5)
      [] Geq(ratio, Rat(7, 10)) /\ Lt(ratio, Num(1))    -> Rat(7, 20)
      [] Geq(ratio, Rat(1, 2)) /\ Lt(ratio, Rat(7, 10)) -> Rat(1, 2)
      [] Lt(ratio, Rat(1, 2))                           -> Rat(7, 10)

\* C6: the coupling factor is the step function of spacing/length, 0 from
\* 2 up, 0.1 on [1.5, 2), 0.2 on [1, 1.5), 0.35 on [0.7, 1), 0.5 on
\* [0.5, 0.7) and 0.7 below 0.5; each boundary has the smaller factor.
C6_CouplingTable ==
    Computed =>
        metrics[1].couplingFactor = CouplingStep(Div(gs.rodSpacing, gs.rodLength))

\* the ratio is exactly the boundary 0.7, which has the factor 0.35
C6_Witness ==
    /\ Computed
    /\ Div(gs.rodSpacing, gs.rodLength) = Rat(7, 10)
    /\ metrics[1].couplingFactor = Rat(35, 100)

PositiveGeometries ==
    {p \in RodSpacings \X RodLengths : Gt(p[1], Num(0)) /\ Gt(p[2], Num(0))}

\* C7: over positive spacings and lengths the coupling factor never rises
\* with spacing/length: a larger ratio has a factor no larger.
C7_CouplingMonotone ==
    (Computed /\ Gt(gs.rodSpacing, Num(0)) /\ Gt(gs.rodLength, Num(0)))
    => \A p \in PositiveGeometries :
           Leq(Div(gs.rodSpacing, gs.rodLength), Div(p[1], p[2]))
           => Geq(metrics[1].couplingFactor, getCouplingFactor(p[1], p[2]))

\* a middle band: some geometry has a larger ratio and a strictly smaller
\* factor, another a smaller ratio and a strictly larger factor
C7_Witness ==
    /\ Computed
    /\ Gt(gs.rodSpacing, Num(0))
    /\ Gt(gs.rodLength, Num(0))
    /\ metrics[1].couplingFactor = Rat(35, 100)
    /\ \E p \in PositiveGeometries :
           /\ Lt(Div(gs.rodSpacing, gs.rodLength), Div(p[1], p[2]))
           /\ Gt(metrics[1].couplingFactor, getCouplingFactor(p[1], p[2]))
    /\ \E p \in PositiveGeometries :
           /\ Gt(Div(gs.rodSpacing, gs.rodLength), Div(p[1], p[2]))
           /\ Lt(metrics[1].couplingFactor, getCouplingFactor(p[1], p[2]))

\* C8: the radial factor is 1 when radialCount or radialLength is 0 and
\* otherwise 1 - min(0.4, radialCount * radialLength * 0.005); for
\* non-negative radials it lies in [0.6, 1], and the total is the parallel
\* resistance times that factor, so never reduced by more than 40% of it.
C8_RadialFactor ==
    Computed =>
        LET l  == locals[1]
            rc == gs.radialCount
            rl == gs.radialLength
        IN  /\ l.radialFactor =
                   IF rc = Num(0) \/ rl = Num(0) THEN Num(1)
                   ELSE Sub(Num(1), MathMin(Rat(4, 10),
                                            Mul(Mul(rc, rl), Rat(5, 1000))))
            /\ (Geq(rc, Num(0)) /\ Geq(rl, Num(0)))
               => /\ Geq(l.radialFactor, Rat(6, 10))
                  /\ Leq(l.radialFactor, Num(1))
            /\ metrics[1].totalResistance = Mul(l.parallelR, l.radialFactor)
            /\ (IsFinite(l.parallelR) /\ Geq(l.parallelR, Num(0)))
               => /\ Geq(metrics[1].totalResistance, Mul(Rat(6, 10), l.parallelR))
                  /\ Leq(metrics[1].totalResistance, l.parallelR)

\* radials far beyond the cap: the factor is 0.6 exactly
C8_Witness ==
    /\ Computed
    /\ Gt(Mul(Mul(gs.radialCount, gs.radialLength), Rat(5, 1000)), Num(2))
    /\ locals[1].radialFactor = Rat(6, 10)
    /\ IsFinite(locals[1].parallelR)
    /\ Gt(locals[1].parallelR, Num(0))
    /\ metrics[1].totalResistance = Mul(Rat(6, 10), locals[1].parallelR)

\* the weather factors as the data model states them
WeatherTable(weather) ==
    CASE weather = "sunny" -> Num(1)
      [] weather = "rain"  -> Rat(1, 2)
      [] weather = "storm" -> Rat(3, 10)
      [] weather = "snow"  -> Rat(6, 5)
      [] OTHER             -> Num(1)

\* C9: the adjusted resistivity is base * weatherFactor * (1 - humidity *
\* 0.3), the factor being 1 for an unrecognised weather tag, and the
\* humidity is used as given, without clamping.
C9_WeatherAdjustment ==
    Computed =>
        metrics[1].resistivity =
            Mul(Mul(locals[1].base, WeatherTable(gs.weather)),
                Sub(Num(1), Mul(gs.humidity, Rat(3, 10))))

\* an unrecognised weather tag and a humidity of 2: the factor is 0.4
C9_Witness ==
    /\ Computed
    /\ gs.weather = UnknownWeather
    /\ gs.humidity = Num(2)
    /\ metrics[1].resistivity = Mul(locals[1].base, Rat(4, 10))

\* C10: with the humidity in [0, 1], adjusted/base is at least 0.21 for
\* every weather tag and soil, it is 0.21 exactly when the weather is storm
\* and the humidity 1, and the humidity term stays within [0.7, 1].
C10_LowestFactor ==
    (Computed /\ Leq(Num(0), gs.humidity) /\ Leq(gs.humidity, Num(1)))
    => LET rho  == metrics[1].resistivity
           base == locals[1].base
       IN  /\ Geq(rho, Mul(Rat(21, 100), base))
           /\ (rho = Mul(Rat(21, 100), base))
              <=> (gs.weather = "storm" /\ gs.humidity = Num(1))
           /\ Geq(humidityTerm(gs.humidity), Rat(7, 10))
           /\ Leq(humidityTerm(gs.humidity), Num(1))

\* storm at full humidity on the driest soil: 0.21 * 1500 = 315
C10_Witness ==
    /\ Computed
    /\ gs.weather = "storm"
    /\ gs.humidity = Num(1)
    /\ gs.soilType = "dry"
    /\ metrics[1].resistivity = Num(315)

\* the function fn has been called directly and has returned
Returned(fn) == returned # <<>> /\ returned[1].fn = fn

\* C11: calculateEfficiency(resistance, target) is 100 when resistance <= 0,
\* else 0 when resistance >= 10 * target, else
\* 100 * clamp(1 - (resistance - target) / (9 * target), 0, 1); the first
\* guard wins where both hold.
C11_EfficiencyFormula ==
    Returned("calculateEfficiency") =>
        LET r == args[1].resistance
            t == args[1].targetResistance
        IN  returned[1].value =
                IF Leq(r, Num(0)) THEN Num(100)
                ELSE IF Geq(r, Mul(Num(10), t)) THEN Num(0)
                ELSE Mul(Num(100),
                         clamp(Sub(Num(1), Div(Sub(r, t), Mul(Num(9), t))),
                               Num(0), Num(1)))

\* both guards hold (a non-positive resistance at least 10 * target): 100
C11_Witness ==
    /\ Returned("calculateEfficiency")
    /\ Leq(args[1].resistance, Num(0))
    /\ Geq(args[1].resistance, Mul(Num(10), args[1].targetResistance))
    /\ returned[1].value = Num(100)

\* a positive finite target
PositiveTarget(t) == IsFinite(t) /\ Gt(t, Num(0))

\* C12: for every positive target, the efficiency is 100 at
\* resistance = target and 0 at resistance = 10 * target, and a resistance
\* no smaller has an efficiency no larger.
C12_EfficiencyMonotone ==
    (Returned("calculateEfficiency") /\ PositiveTarget(args[1].targetResistance))
    => LET r == args[1].resistance
           t == args[1].targetResistance
       IN  /\ r = t => returned[1].value = Num(100)
           /\ r = Mul(Num(10), t) => returned[1].value = Num(0)
           /\ \A r2 \in FnResistances :
                  Leq(r, r2) => Geq(returned[1].value, calculateEfficiency(r2, t))

\* a resistance strictly between target and 10 * target: an efficiency
\* strictly between those of a smaller and of a larger resistance
C12_Witness ==
    /\ Returned("calculateEfficiency")
    /\ PositiveTarget(args[1].targetResistance)
    /\ Gt(args[1].resistance, args[1].targetResistance)
    /\ Lt(args[1].resistance, Mul(Num(10), args[1].targetResistance))
    /\ Gt(returned[1].value, Num(0))
    /\ Lt(returned[1].value, Num(100))
    /\ \E r2 \in FnResistances :
           /\ Lt(args[1].resistance, r2)
           /\ Gt(r2, Num(0))
           /\ Lt(r2, Mul(Num(10), args[1].targetResistance))
           /\ Gt(returned[1].value,
                 calculateEfficiency(r2, args[1].targetResistance))

\* C13: calculateFaultCurrent(voltage, resistance) is 0 when
\* resistance <= 0 and voltage / resistance otherwise; for +Infinity the
\* guard is false and the quotient itself is 0.
C13_FaultCurrent ==
    Returned("calculateFaultCurrent") =>
        LET r == args[1].resistance
            v == args[1].voltage
        IN  /\ returned[1].value =
                   IF Leq(r, Num(0)) THEN Num(0) ELSE Div(v, r)
            /\ r = Infinity
               => /\ ~Leq(r, Num(0))
                  /\ Div(v, r) = Num(0)
                  /\ returned[1].value = Num(0)

\* 220 V over an infinite resistance
C13_Witness ==
    /\ Returned("calculateFaultCurrent")
    /\ args[1].resistance = Infinity
    /\ args[1].voltage = Num(220)
    /\ returned[1].value = Num(0)

\* C14: getSystemStatus is excellent for resistance <= 5, good on (5, 10],
\* warning on (10, 25] and danger above 25, +Infinity included; every
\* resistance gets one of the four statuses, and the status is the same
\* under every targetResistance.
C14_StatusBands ==
    Returned("getSystemStatus") =>
        LET r  == args[1].resistance
            st == returned[1].value.status
        IN  /\ Leq(r, Num(5)) => st = "excellent"
            /\ (Gt(r, Num(5)) /\ Leq(r, Num(10))) => st = "good"
            /\ (Gt(r, Num(10)) /\ Leq(r, Num(25))) => st = "warning"
            /\ Gt(r, Num(25)) => st = "danger"
            /\ r = Infinity => st = "danger"
            /\ st \in {"excellent", "good", "warning", "danger"}

\* a resistance exactly at the threshold 5 while the target is not 5
C14_Witness ==
    /\ Returned("getSystemStatus")
    /\ args[1].resistance = Num(5)
    /\ args[1].targetResistance = Num(1)
    /\ returned[1].value.status = "excellent"

ConfigurationFields ==
    {"rodCount", "rodLength", "rodDiameter", "rodSpacing", "radialCount",
     "radialLength", "soilType", "weather", "humidity", "faultVoltage",
     "targetResistance"}

\* C17: a call of calculate() leaves every field of the configuration as it
\* was before the call.
C17_CalculateMutatesNothing ==
    [][Calculate => \A f \in ConfigurationFields : gs'[f] = gs[f]]_vars

\* after a call, values outside the declared domain are still in the fields
C17_Witness ==
    /\ Computed
    /\ gs.humidity = Num(2)
    /\ gs.rodCount = Num(-1)
    /\ gs.soilType = UnknownSoil
    /\ gs.weather = UnknownWeather

\* x lies within tol of the stated value
About(x, stated, tol) == Leq(Sub(stated, tol), x) /\ Leq(x, Add(stated, tol))

\* C20: a fresh GroundingSystem holds the stated defaults, and calculate()
\* on it gives resistivity 34, coupling 0.2 at the ratio 1.25, radial factor
\* 0.8, a single-rod resistance about 14.43, a total about 4.62, status
\* excellent, an efficiency near 100 and a fault current about 47.6.
C20_Defaults ==
    (Computed /\ gs = GroundingSystem)
    => /\ gs.rodCount = Num(4)
       /\ gs.rodLength = Rat(24, 10)
       /\ gs.rodDiameter = Rat(16, 1000)
       /\ gs.rodSpacing = Num(3)
       /\ gs.radialCount = Num(8)
       /\ gs.radialLength = Num(5)
       /\ gs.soilType = "clay"
       /\ gs.weather = "sunny"
       /\ gs.humidity = Rat(5, 10)
       /\ gs.faultVoltage = Num(220)
       /\ gs.targetResistance = Num(5)
       /\ metrics[1].resistivity = Num(34)
       /\ Div(gs.rodSpacing, gs.rodLength) = Rat(125, 100)
       /\ metrics[1].couplingFactor = Rat(2, 10)
       /\ locals[1].radialFactor = Rat(8, 10)
       /\ About(metrics[1].singleRodResistance, Rat(1443, 100), Rat(5, 100))
       /\ About(metrics[1].totalResistance, Rat(462, 100), Rat(5, 100))
       /\ metrics[1].status.status = "excellent"
       /\ About(metrics[1].efficiency, Num(100), Num(1))
       /\ Leq(metrics[1].efficiency, Num(100))
       /\ About(metrics[1].faultCurrent, Rat(476, 10), Rat(1, 10))

\* calculate() has run on the untouched defaults
C20_Witness ==
    /\ Computed
    /\ gs = GroundingSystem
    /\ gs.rodCount = Num(4)
    /\ IsFinite(metrics[1].totalResistance)
    /\ Lt(metrics[1].totalResistance, Num(5))

\* C16: whenever calculate() is invoked after changes made through
\* handleTerrainChange('humidity', v), for any number v, and
\* handleClimateChange('weather', w), the humidity field of the
\* GroundingSystem lies in [0, 1].
C16_HumidityClamped ==
    Computed => Leq(Num(0), gs.humidity) /\ Leq(gs.humidity, Num(1))

\* a humidity of 1.5 passed to handleTerrainChange: the Terrain holds 1, the
\* GroundingSystem holds 1.5 and calculate() has used it
C16_Witness ==
    /\ Computed
    /\ gs.humidity = Rat(3, 2)
    /\ terrain.humidity = Num(1)
    /\ metrics[1].resistivity =
           Mul(Mul(locals[1].base, WeatherTable(gs.weather)), Rat(55, 100))

C19_DisplayNeverStale ==
    display = <<calculate(gs)>>

\* one rod in rocky soil under a storm: the display shows 1000 * 0.3 * 0.7
C19_Witness ==
    /\ display # <<>>
    /\ gs.rodCount = Num(1)
    /\ gs.soilType = "rocky"
    /\ gs.weather = "storm"
    /\ display[1].resistivity = Num(210)
    /\ display[1].status.status = "danger"

\* the display colour of each status
StatusColor(st) ==
    CASE st = "excellent" -> "#00ff88"
      [] st = "good"      -> "#88ff00"
      [] st = "warning"   -> "#ffaa00"
      [] st = "danger"    -> "#ff4444"

\* C21 as stated: the status carries the message "Excellent", "Good",
\* "Warning" or "Danger" according to its status, and one fixed colour per
\* status.
C21_Original ==
    Returned("getSystemStatus") =>
        LET v == returned[1].value
        IN  /\ v.message = CASE v.status = "excellent" -> "Excellent"
                             [] v.status = "good"      -> "Good"
                             [] v.status = "warning"   -> "Warning"
                             [] v.status = "danger"    -> "Danger"
            /\ v.color = StatusColor(v.status)

\* C21 amended: the status carries the message "Excelente", "Bueno",
\* "Advertencia" or "Peligro" according to its status, and one fixed colour
\* per status.
C21_StatusMessages ==
    Returned("getSystemStatus") =>
        LET v == returned[1].value
        IN  /\ v.message = CASE v.status = "excellent" -> "Excelente"
                             [] v.status = "good"      -> "Bueno"
                             [] v.status = "warning"   -> "Advertencia"
                             [] v.status = "danger"    -> "Peligro"
            /\ v.color = StatusColor(v.status)

\* the status of an infinite resistance: danger, "Peligro", red
C21_Witness ==
    /\ Returned("getSystemStatus")
    /\ args[1].resistance = Infinity
    /\ returned[1].value.status = "danger"
    /\ returned[1].value.message = "Peligro"
    /\ returned[1].value.color = "#ff4444"

C30_WiderSpacingNeverWorse ==
    (Computed /\ Geq(gs.rodCount, Num(1)) /\ Geq(locals[1].singleRodR, Num(0)))
    => \A spacing \in RodSpacings :
           Leq(gs.rodSpacing, spacing)
           => Leq(calculate([gs EXCEPT !.rodSpacing = spacing]).totalResistance,
                  metrics[1].totalResistance)

\* several rods at a finite positive resistance: some wider spacing gives a
\* strictly smaller total
C30_Witness ==
    /\ Computed
    /\ Geq(gs.rodCount, Num(2))
    /\ IsFinite(locals[1].singleRodR)
    /\ Gt(locals[1].singleRodR, Num(0))
    /\ \E spacing \in RodSpacings :
           /\ Lt(gs.rodSpacing, spacing)
           /\ Lt(calculate([gs EXCEPT !.rodSpacing = spacing]).totalResistance,
                 metrics[1].totalResistance)

\* the humidity ClimateSystem.setWeather stores for a weather
PresetHumidity(weather) ==
    CASE weather = "sunny" -> Rat(3, 10)
      [] weather = "rain"  -> Rat(9, 10)
      [] weather = "snow"  -> Rat(7, 10)
      [] weather = "storm" -> Num(1)

\* a step in which the ClimateSystem's weather or its humidity changes:
\* an event that changes the weather
WeatherChanged ==
    climate'.weather # climate.weather \/ climate'.humidity # climate.humidity

\* C22: when the weather changes, the GroundingSystem holds the new weather
\* and the humidity derived from it, and the metrics computed and displayed
\* in that step are those of that configuration, never those of the new
\* weather with the previous humidity.
C22_WeatherAndHumidityBeforeRecompute ==
    [][WeatherChanged =>
          /\ gs'.weather = climate'.weather
          /\ gs'.humidity = PresetHumidity(gs'.weather)
          /\ metrics' = <<calculate(gs')>>
          /\ display' = metrics']_vars

\* rain selected on rocky soil after the humidity was set to 1.5: the
\* metrics shown are those of rain with humidity 0.9
C22_Witness ==
    /\ gs.weather = "rain"
    /\ climate.weather = "rain"
    /\ gs.soilType = "rocky"
    /\ gs.humidity = Rat(9, 10)
    /\ terrain.humidity = Rat(9, 10)
    /\ display = <<calculate(gs)>>
    /\ display # <<calculate([gs EXCEPT !.humidity = Rat(3, 2)])>>

\* C23: after any sequence of humidity-slider events with values in [0, 1]
\* and weather-change events, the humidity of the GroundingSystem, of the
\* Terrain and of the UI parameter soil.humidity are equal; a weather change
\* overwrites the humidity with the preset of the weather (sunny 0.3, rain
\* 0.9, snow 0.7, storm 1.0), and a later slider event overwrites the preset
\* with the slider's value.
C23_HumidityInSync ==
    /\ [](/\ gs.humidity = terrain.humidity
          /\ terrain.humidity = ui.soil.humidity)
    /\ [][WeatherChanged =>
             /\ gs'.humidity = PresetHumidity(climate'.weather)
             /\ ui'.soil.humidity = PresetHumidity(climate'.weather)]_vars
    /\ [][\A value \in HumiditySlider :
               (/\ ui'.soil.humidity # ui.soil.humidity
                /\ ui' = controllerSetValue(ui, "soil", "humidity", value)
                /\ climate' = climate)
               => /\ gs'.humidity = value
                  /\ terrain'.humidity = value
                  /\ gs'.weather = gs.weather]_vars

\* the slider moved to 0 after rain was selected: rain's preset 0.9 stays
\* in the ClimateSystem and the three humidities are 0
C23_Witness ==
    /\ climate.weather = "rain"
    /\ climate.humidity = Rat(9, 10)
    /\ gs.weather = "rain"
    /\ gs.humidity = Num(0)
    /\ terrain.humidity = Num(0)
    /\ ui.soil.humidity = Num(0)

\* the parameters the GroundingSystem and the AntennaSystem both hold
SharedAntennaFields ==
    {"rodCount", "rodLength", "rodSpacing", "radialCount", "radialLength",
     "rodDiameter"}

\* C24: after any sequence of antenna-change events the GroundingSystem and
\* the AntennaSystem agree on rodCount, rodLength, rodSpacing, radialCount,
\* radialLength and the never-changed rodDiameter, and a mastHeight change
\* alters no field of the GroundingSystem.
C24_AntennaInSync ==
    /\ [](/\ \A f \in SharedAntennaFields : gs[f] = antenna[f]
          /\ gs.rodDiameter = Rat(16, 1000))
    /\ [][antenna'.mastHeight # antenna.mastHeight => gs' = gs]_vars

\* every slider of the antenna and of the ground rods has been moved
C24_Witness ==
    /\ antenna.mastHeight = Num(3)
    /\ antenna.rodCount = Num(12) /\ gs.rodCount = Num(12)
    /\ antenna.rodLength = Num(5) /\ gs.rodLength = Num(5)
    /\ antenna.rodSpacing = Num(1) /\ gs.rodSpacing = Num(1)
    /\ antenna.radialCount = Num(0) /\ gs.radialCount = Num(0)
    /\ antenna.radialLength = Num(15) /\ gs.radialLength = Num(15)

ColorBand(flow) ==
    CASE flow.highIntensityColor = "0x00ff00" /\ flow.lowIntensityColor = "0x00ff88" -> "excellent"
      [] flow.highIntensityColor = "0xffff00" /\ flow.lowIntensityColor = "0x88ff00" -> "good"
      [] flow.highIntensityColor = "0xffaa00" /\ flow.lowIntensityColor = "0xffff00" -> "warning"
      [] flow.highIntensityColor = "0xff4400" /\ flow.lowIntensityColor = "0xff8800" -> "danger"
      [] OTHER -> "none"

\* C26: for every resistance the colour band updateColors selects (green,
\* yellow, orange, red) is the one of the status getSystemStatus returns
\* (excellent, good, warning, danger), the thresholds 5, 10 and 25 being
\* inclusive upper bounds in both; after every recomputation the colour of
\* the flow and the displayed status agree.
C26_FlowColourMatchesStatus ==
    /\ \A r \in FnResistances :
           ColorBand(updateColors(currentFlow, r)) = getSystemStatus(r).status
    /\ ColorBand(currentFlow) = display[1].status.status
    /\ ColorBand(currentFlow) = getSystemStatus(metrics[1].totalResistance).status

\* a total resistance between 10 and 25 is displayed: the flow is orange
\* and the status warning
C26_Witness ==
    /\ Gt(display[1].totalResistance, Num(10))
    /\ Leq(display[1].totalResistance, Num(25))
    /\ display[1].status.status = "warning"
    /\ currentFlow.highIntensityColor = "0xffaa00"
    /\ currentFlow.lowIntensityColor = "0xffff00"

\* a step of handleAction or of the mouse and key handlers, which do not
\* run updateCalculations(); every other step of the simulator is a call of
\* handleAntennaChange, handleTerrainChange or handleClimateChange, which
\* all end with it
WithoutRecomputation == HandleAction \/ OnMouseDown \/ OnKeyDown

\* C27: the flow intensity is in [0, 2] after any sequence of
\* setFlowIntensity actions and parameter changes, and immediately after
\* every recomputation it is 0.5 + efficiency / 100, a value in [0.5, 1.5],
\* whatever the user had set with setFlowIntensity.
C27_FlowIntensity ==
    /\ [](/\ Leq(Num(0), currentFlow.intensity)
          /\ Leq(currentFlow.intensity, Num(2)))
    /\ [][~WithoutRecomputation =>
             /\ currentFlow'.intensity =
                    Add(Rat(5, 10), Div(display'[1].efficiency, Num(100)))
             /\ Leq(Rat(5, 10), currentFlow'.intensity)
             /\ Leq(currentFlow'.intensity, Rat(15, 10))]_vars

\* a recomputation after the user had set the intensity: the flow is
\* hidden, a tree is being placed, and the intensity is that of an
\* efficiency strictly between 0 and 100
C27_Witness ==
    /\ ~currentFlow.isActive
    /\ simulator.placementMode = "tree"
    /\ Gt(display[1].efficiency, Num(0))
    /\ Lt(display[1].efficiency, Num(100))
    /\ currentFlow.intensity = Add(Rat(5, 10), Div(display[1].efficiency, Num(100)))
    /\ Lt(currentFlow.intensity, Rat(15, 10))

\* C28: after any sequence of edit-mode toggles, obstacle-placement
\* requests, mouse clicks and Escape presses, the simulator's isEditing
\* equals the Terrain's editMode, and an Escape press leaves placementMode
\* null and isEditing and the Terrain's editMode false.
C28_EditModeInSync ==
    /\ [](simulator.isEditing = terrain.editMode)
    /\ [][onKeyDown("Escape") =>
             /\ simulator'.placementMode = "null"
             /\ simulator'.isEditing = FALSE
             /\ terrain'.editMode = FALSE]_vars

\* the edit mode is on in the simulator and in the Terrain while a tree is
\* being placed: the state an Escape press resets
C28_Witness ==
    /\ simulator.isEditing
    /\ terrain.editMode
    /\ simulator.placementMode = "tree"

====
